---- MODULE Spec2Model ----
(***************************************************************************)
(* Model of mdc_ctvelocio.py: the command line controller for a Velocio    *)
(* PLC.  One run of main() executes one command: catalog lookup, serial    *)
(* connect, stale-input flush, one write/drain exchange per frame, the     *)
(* response callback (cb_default or cb_read_tags) and close.  The device   *)
(* is the environment: it answers each written frame with some byte        *)
(* sequence, whose bytes reach the input buffer one at a time, at any      *)
(* moment while the port is open.  Bytes are integers 0..255.              *)
(***************************************************************************)
EXTENDS Integers, Sequences, FiniteSets, TLC

(* ---- bounds of the model ---- *)
MaxTags == 2
MaxNameLen == 1
MaxBacklog == 1

(* ---- the frame catalog (lines 43-88) ---- *)
READ_INPUT_BITS ==
    << <<86, 255, 255, 0, 8, 10, 0, 1>>,
       <<86, 255, 255, 0, 8, 10, 0, 2>>,
       <<86, 255, 255, 0, 8, 10, 0, 3>>,
       <<86, 255, 255, 0, 8, 10, 0, 4>>,
       <<86, 255, 255, 0, 8, 10, 0, 5>>,
       <<86, 255, 255, 0, 8, 10, 0, 6>> >>

\* variant: the output queries start one opcode too low
READ_OUTPUT_BITS_low ==
    << <<86, 255, 255, 0, 8, 10, 0, 6>>,
       <<86, 255, 255, 0, 8, 10, 0, 7>>,
       <<86, 255, 255, 0, 8, 10, 0, 8>>,
       <<86, 255, 255, 0, 8, 10, 0, 9>>,
       <<86, 255, 255, 0, 8, 10, 0, 10>>,
       <<86, 255, 255, 0, 8, 10, 0, 11>> >>

READ_OUTPUT_BITS ==
    << <<86, 255, 255, 0, 8, 10, 0, 7>>,
       <<86, 255, 255, 0, 8, 10, 0, 8>>,
       <<86, 255, 255, 0, 8, 10, 0, 9>>,
       <<86, 255, 255, 0, 8, 10, 0, 10>>,
       <<86, 255, 255, 0, 8, 10, 0, 11>>,
       <<86, 255, 255, 0, 8, 10, 0, 12>> >>

\* lines 62-69: the control and debug commands
CONTROL_FRAMES ==
    ("play"             :> << <<86, 255, 255, 0, 7, 241, 1>> >>) @@
    ("pause"            :> << <<86, 255, 255, 0, 7, 241, 2>> >>) @@
    ("reset"            :> << <<86, 255, 255, 0, 7, 241, 6>> >>) @@
    ("step_into"        :> << <<86, 255, 255, 0, 7, 241, 3>> >>) @@
    ("step_out"         :> << <<86, 255, 255, 0, 7, 241, 4>> >>) @@
    ("step_over"        :> << <<86, 255, 255, 0, 7, 241, 5>> >>) @@
    ("enter_debug"      :> << <<86, 255, 255, 0, 7, 240, 2>> >>) @@
    ("exit_debug"       :> << <<86, 255, 255, 0, 7, 240, 1>> >>)

\* lines 70-75
SET_OUTPUT_OFF_FRAMES ==
    ("set_output_1_off" :> << <<86, 255, 255, 0, 21, 17, 1, 0, 1, 0, 0, 9, 1, 0, 0, 1, 0, 1, 0, 0, 0>> >>) @@
    ("set_output_2_off" :> << <<86, 255, 255, 0, 21, 17, 1, 0, 1, 0, 0, 9, 1, 0, 0, 1, 0, 2, 0, 0, 0>> >>) @@
    ("set_output_3_off" :> << <<86, 255, 255, 0, 21, 17, 1, 0, 1, 0, 0, 9, 1, 0, 0, 1, 0, 4, 0, 0, 0>> >>) @@
    ("set_output_4_off" :> << <<86, 255, 255, 0, 21, 17, 1, 0, 1, 0, 0, 9, 1, 0, 0, 1, 0, 8, 0, 0, 0>> >>) @@
    ("set_output_5_off" :> << <<86, 255, 255, 0, 21, 17, 1, 0, 1, 0, 0, 9, 1, 0, 0, 1, 0, 16, 0, 0, 0>> >>) @@
    ("set_output_6_off" :> << <<86, 255, 255, 0, 21, 17, 1, 0, 1, 0, 0, 9, 1, 0, 0, 1, 0, 32, 0, 0, 0>> >>)

\* variant: set_output_4_on carries the bitmask of output 3
SET_OUTPUT_ON_FRAMES_mask ==
    ("set_output_1_on"  :> << <<86, 255, 255, 0, 21, 17, 1, 0, 1, 0, 0, 9, 1, 0, 0, 1, 0, 1, 0, 0, 1>> >>) @@
    ("set_output_2_on"  :> << <<86, 255, 255, 0, 21, 17, 1, 0, 1, 0, 0, 9, 1, 0, 0, 1, 0, 2, 0, 0, 1>> >>) @@
    ("set_output_3_on"  :> << <<86, 255, 255, 0, 21, 17, 1, 0, 1, 0, 0, 9, 1, 0, 0, 1, 0, 4, 0, 0, 1>> >>) @@
    ("set_output_4_on"  :> << <<86, 255, 255, 0, 21, 17, 1, 0, 1, 0, 0, 9, 1, 0, 0, 1, 0, 4, 0, 0, 1>> >>) @@
    ("set_output_5_on"  :> << <<86, 255, 255, 0, 21, 17, 1, 0, 1, 0, 0, 9, 1, 0, 0, 1, 0, 16, 0, 0, 1>> >>) @@
    ("set_output_6_on"  :> << <<86, 255, 255, 0, 21, 17, 1, 0, 1, 0, 0, 9, 1, 0, 0, 1, 0, 32, 0, 0, 1>> >>)

\* lines 76-81
SET_OUTPUT_ON_FRAMES ==
    ("set_output_1_on"  :> << <<86, 255, 255, 0, 21, 17, 1, 0, 1, 0, 0, 9, 1, 0, 0, 1, 0, 1, 0, 0, 1>> >>) @@
    ("set_output_2_on"  :> << <<86, 255, 255, 0, 21, 17, 1, 0, 1, 0, 0, 9, 1, 0, 0, 1, 0, 2, 0, 0, 1>> >>) @@
    ("set_output_3_on"  :> << <<86, 255, 255, 0, 21, 17, 1, 0, 1, 0, 0, 9, 1, 0, 0, 1, 0, 4, 0, 0, 1>> >>) @@
    ("set_output_4_on"  :> << <<86, 255, 255, 0, 21, 17, 1, 0, 1, 0, 0, 9, 1, 0, 0, 1, 0, 8, 0, 0, 1>> >>) @@
    ("set_output_5_on"  :> << <<86, 255, 255, 0, 21, 17, 1, 0, 1, 0, 0, 9, 1, 0, 0, 1, 0, 16, 0, 0, 1>> >>) @@
    ("set_output_6_on"  :> << <<86, 255, 255, 0, 21, 17, 1, 0, 1, 0, 0, 9, 1, 0, 0, 1, 0, 32, 0, 0, 1>> >>)

\* lines 61-85: the whole table
COMMAND_IMPLEMENTATIONS ==
    CONTROL_FRAMES @@ SET_OUTPUT_OFF_FRAMES @@ SET_OUTPUT_ON_FRAMES @@
    ("read_input_bits"  :> READ_INPUT_BITS) @@
    ("read_output_bits" :> READ_OUTPUT_BITS) @@
    ("read_tags"        :> << <<86, 255, 255, 0, 6, 172>> >>)

TAG_COUNT_HEADER == <<86, 255, 255, 0, 10, 172, 6>>

\* variant: the header without its first byte
TAG_READNAME_HEADER_bare == <<255, 255, 0, 8, 10, 0>>

TAG_READNAME_HEADER == <<86, 255, 255, 0, 8, 10, 0>>

\* the commands that have their own response callback (lines 111-113)
COMMAND_CALLBACKS == {"read_tags"}

(* ---- pure helpers: the Python string operations the code uses ---- *)

\* variant: the comparison stops one byte short of the prefix
StartsWith_short(s, p) ==
    /\ Len(s) >= Len(p) - 1
    /\ \A k \in 1..(Len(p) - 1) : s[k] = p[k]

\* s.startswith(p)
StartsWith(s, p) ==
    /\ Len(s) >= Len(p)
    /\ \A k \in 1..Len(p) : s[k] = p[k]

\* variant: the byte right after the seven bytes of the header, s[7]
LastByte_at8(s) == IF Len(s) >= 8 THEN s[8] ELSE 0

\* s[-1]
LastByte(s) == s[Len(s)]

\* s[n:]
SliceFrom(s, n) == SubSeq(s, n + 1, Len(s))

\* index of the first occurrence of byte sep in s at or after position k, 0 if none
RECURSIVE FindFrom(_, _, _)
FindFrom(s, sep, k) ==
    IF k > Len(s) THEN 0
    ELSE IF s[k] = sep THEN k
    ELSE FindFrom(s, sep, k + 1)

\* s.split(sep) for a one-byte separator: the list of the pieces between separators
RECURSIVE Split(_, _)
Split(s, sep) ==
    LET p == FindFrom(s, sep, 1) IN
    IF p = 0 THEN << s >>
    ELSE << SubSeq(s, 1, p - 1) >> \o Split(SubSeq(s, p + 1, Len(s)), sep)

\* variant: the name is taken from offset 8
TagName_off8(r) == Split(SliceFrom(r, 8), 32)[1]

\* r[9:].split(" ")[0]   (line 103)
TagName(r) == Split(SliceFrom(r, 9), 32)[1]

(* ---- the environment: what the device may send ---- *)

\* all sequences over S of length at most n
SeqsUpTo(S, n) == UNION {[1..k -> S] : k \in 0..n}

\* the bytes a tag name is made of here: space and "A"
NameBytes == {32, 65}

\* nine leading bytes of a tag-name response; two of them are spaces
Pad9 == <<86, 255, 255, 0, 32, 10, 0, 1, 32>>

\* "MOTOR1 XYZ"
Motor1Xyz == <<77, 79, 84, 79, 82, 49, 32, 88, 89, 90>>

NameReplies ==
    {Pad9 \o s : s \in SeqsUpTo(NameBytes, MaxNameLen)}
        \cup {SubSeq(Pad9, 1, 5), Pad9 \o Motor1Xyz}

CountReplies ==
    {TAG_COUNT_HEADER \o <<n>> : n \in 0..MaxTags}
        \cup {TAG_COUNT_HEADER, TAG_COUNT_HEADER \o <<1, 2>>}

OtherReplies ==
    {<<>>, <<0>>, <<86, 255, 255>>, <<86, 255, 255, 0, 10, 172, 7, 2>>}

\* what the device may answer: to the tag count request a count response or
\* something else, to a tag-name query of the enumeration a name response or
\* something else, to every other frame one of the short answers
DeviceReplies(frame, who) ==
    IF frame = <<86, 255, 255, 0, 6, 172>> THEN CountReplies \cup OtherReplies
    ELSE IF who = "cb_read_tags" THEN NameReplies \cup OtherReplies
    ELSE OtherReplies

\* what may still be arriving from an earlier exchange when the port is opened
StaleInputs == {<<>>, <<7, 9>>}

\* identifiers that are not in the catalog
UnknownIds == {"", "stop", "PLAY", "read_tag", "set_output_7_on"}

CommandIds == DOMAIN COMMAND_IMPLEMENTATIONS \cup UnknownIds

(* ---- state ---- *)
VARIABLES
    pc,         \* position of the (single) thread
    incommand,  \* args.command: a list of one identifier
    ser,        \* the serial handle: "none", "open", "closed"
    inbuf,      \* bytes pending in the port's input buffer
    wire,       \* bytes the device has sent that have not arrived yet
    written,    \* every byte string passed to ser.write, in order
    insnIdx,    \* position of the for loop of send_command_read_response
    insn,       \* argument of write_ser_get_response
    caller,     \* who called write_ser_get_response
    response,   \* accumulator of write_ser_get_response
    respdata,   \* argument of the callback
    handled,    \* number of callback invocations
    numtags,    \* cb_read_tags
    i,          \* cb_read_tags loop index
    r,          \* cb_read_tags: the tag-name response
    tname,      \* cb_read_tags: the extracted name
    log,        \* the log lines, as <<level, message>>
    opens,      \* number of serial.Serial(...) that succeeded
    closes,     \* number of ser.close()
    flushes,    \* number of ser.flushInput()
    calls,      \* number of calls of write_ser_get_response
    staleCnt,   \* leading bytes of inbuf that were pending when send_command_read_response started
    staleRead,  \* one of those bytes was read into a response
    polled,     \* in this exchange a poll reported available bytes
    attempts,   \* number of serial.Serial(...) calls, failed ones included
    returns,    \* number of returns of write_ser_get_response
    drained,    \* in this exchange a poll has reported zero available bytes
    lateLeft    \* bytes pending when the last frame was written and not yet read

vars == <<pc, incommand, ser, inbuf, wire, written, insnIdx, insn, caller,
          response, respdata, handled, numtags, i, r, tname, log,
          opens, closes, flushes, calls, staleCnt, staleRead, polled,
          attempts, returns, drained, lateLeft>>

serv == <<ser, inbuf, wire, written, opens, closes, flushes>>
loopv == <<insnIdx, insn, caller, calls>>
tagv == <<numtags, i, r, tname>>
ghostv == <<staleCnt, staleRead, polled>>
histv == <<attempts, returns, drained, lateLeft>>

cname == incommand[1]

Init ==
    /\ pc = "main"
    /\ incommand \in {<<c>> : c \in CommandIds}
    /\ ser = "none"
    /\ inbuf = <<>>
    /\ wire = <<>>
    /\ written = <<>>
    /\ insnIdx = 0
    /\ insn = <<>>
    /\ caller = "none"
    /\ response = <<>>
    /\ respdata = <<>>
    /\ handled = 0
    /\ numtags = 0
    /\ i = 0
    /\ r = <<>>
    /\ tname = <<>>
    /\ log = <<>>
    /\ opens = 0
    /\ closes = 0
    /\ flushes = 0
    /\ calls = 0
    /\ staleCnt = 0
    /\ staleRead = FALSE
    /\ polled = FALSE
    /\ attempts = 0
    /\ returns = 0
    /\ drained = FALSE
    /\ lateLeft = 0

(* ---- main and process_command ---- *)

\* main, lines 171-185: logging.debug("Starting up"), then process_command
main ==
    /\ pc = "main"
    /\ log' = Append(log, <<"debug", "Starting up">>)
    /\ pc' = "process_command"
    /\ UNCHANGED <<histv, incommand, serv, loopv, response, respdata, handled, tagv, ghostv>>

\* variant: an unknown command is dropped without a log line
process_command_silent ==
    /\ pc = "process_command"
    /\ IF cname \notin DOMAIN COMMAND_IMPLEMENTATIONS
       THEN /\ log' = log
            /\ pc' = "main_done"
       ELSE /\ log' = log
            /\ pc' = "connect_serial"
    /\ UNCHANGED <<histv, incommand, serv, loopv, response, respdata, handled, tagv, ghostv>>

\* variant: an unknown command is logged and then raised as an exception
process_command_raise ==
    /\ pc = "process_command"
    /\ IF cname \notin DOMAIN COMMAND_IMPLEMENTATIONS
       THEN /\ log' = Append(log, <<"error", "Unknown command - please check usage">>)
            /\ pc' = "crashed"
       ELSE /\ log' = log
            /\ pc' = "connect_serial"
    /\ UNCHANGED <<histv, incommand, serv, loopv, response, respdata, handled, tagv, ghostv>>

\* process_command, lines 156-159: the catalog lookup
process_command ==
    /\ pc = "process_command"
    /\ IF cname \notin DOMAIN COMMAND_IMPLEMENTATIONS
       THEN /\ log' = Append(log, <<"error", "Unknown command - please check usage">>)
            /\ pc' = "main_done"
       ELSE /\ log' = log
            /\ pc' = "connect_serial"
    /\ UNCHANGED <<histv, incommand, serv, loopv, response, respdata, handled, tagv, ghostv>>

\* variant: a failed open is tried again
connect_serial_retry ==
    /\ pc = "connect_serial"
    /\ attempts' = attempts + 1
    /\ \/ /\ ser' = "open"
          /\ opens' = opens + 1
          /\ inbuf' = <<>>
          /\ \E s \in StaleInputs : wire' = s
          /\ pc' = "send_command_read_response"
       \/ /\ pc' = "connect_serial"
          /\ UNCHANGED <<ser, opens, inbuf, wire>>
    /\ UNCHANGED <<returns, drained, lateLeft, incommand, written, closes, flushes, loopv,
                   response, respdata, handled, tagv, log, ghostv>>

\* connect_serial, lines 116-125: serial.Serial(...) opens the port or raises
connect_serial ==
    /\ pc = "connect_serial"
    /\ attempts' = attempts + 1
    /\ \/ /\ ser' = "open"
          /\ opens' = opens + 1
          /\ inbuf' = <<>>
          /\ \E s \in StaleInputs : wire' = s
          /\ pc' = "send_command_read_response"
       \/ /\ pc' = "crashed"
          /\ UNCHANGED <<ser, opens, inbuf, wire>>
    /\ UNCHANGED <<returns, drained, lateLeft, incommand, written, closes, flushes, loopv, response, respdata,
                   handled, tagv, log, ghostv>>

\* ser.close(), line 168
ser_close ==
    /\ pc = "ser_close"
    /\ ser' = "closed"
    /\ closes' = closes + 1
    /\ pc' = "main_done"
    /\ UNCHANGED <<histv, incommand, inbuf, wire, written, opens, flushes, loopv, response,
                   respdata, handled, tagv, log, ghostv>>

\* main, line 187
main_done ==
    /\ pc = "main_done"
    /\ log' = Append(log, <<"info", "Done">>)
    /\ pc' = "done"
    /\ UNCHANGED <<histv, incommand, serv, loopv, response, respdata, handled, tagv, ghostv>>

(* ---- send_command_read_response ---- *)

\* lines 140 and 143: poll for leftover data; without any, log and enter the loop
send_command_read_response ==
    /\ pc = "send_command_read_response"
    /\ staleCnt' = Len(inbuf)
    /\ IF Len(inbuf) > 0
       THEN /\ pc' = "flushInput"
            /\ log' = log
       ELSE /\ pc' = "for_insn"
            /\ log' = Append(log, <<"info", "Sending command">>)
    /\ UNCHANGED <<histv, incommand, serv, loopv, response, respdata, handled, tagv,
                   staleRead, polled>>

\* variant: the flush leaves the pending bytes in place
flushInput_keep ==
    /\ pc = "flushInput"
    /\ flushes' = flushes + 1
    /\ log' = Append(log, <<"info", "Sending command">>)
    /\ pc' = "for_insn"
    /\ UNCHANGED <<histv, incommand, ser, inbuf, wire, written, opens, closes, loopv, response,
                   respdata, handled, tagv, ghostv>>

\* lines 141 and 143: ser.flushInput() discards everything pending
flushInput ==
    /\ pc = "flushInput"
    /\ inbuf' = <<>>
    /\ flushes' = flushes + 1
    /\ staleCnt' = 0
    /\ log' = Append(log, <<"info", "Sending command">>)
    /\ pc' = "for_insn"
    /\ UNCHANGED <<histv, incommand, ser, wire, written, opens, closes, loopv, response,
                   respdata, handled, tagv, staleRead, polled>>

\* variant: an identifier without an entry is taken to have no frames
for_insn_get ==
    /\ pc = "for_insn"
    /\ IF cname \notin DOMAIN COMMAND_IMPLEMENTATIONS
       THEN /\ pc' = "ser_close"
            /\ UNCHANGED <<insnIdx, insn, caller, calls, respdata, tagv>>
       ELSE IF insnIdx < Len(COMMAND_IMPLEMENTATIONS[cname])
       THEN /\ insnIdx' = insnIdx + 1
            /\ insn' = COMMAND_IMPLEMENTATIONS[cname][insnIdx + 1]
            /\ caller' = "send_command_read_response"
            /\ calls' = calls + 1
            /\ respdata' = <<>>
            /\ numtags' = 0
            /\ i' = 0
            /\ r' = <<>>
            /\ tname' = <<>>
            /\ pc' = "ser_write"
       ELSE /\ pc' = "ser_close"
            /\ UNCHANGED <<insnIdx, insn, caller, calls, respdata, tagv>>
    /\ UNCHANGED <<histv, incommand, serv, response, handled, log, ghostv>>

\* lines 145-146: the next frame of the command, or the end of the loop; the
\* lookup COMMAND_IMPLEMENTATIONS[cname] raises KeyError for an identifier
\* that has no entry.  The response of the previous iteration is dead from
\* here on (line 146 overwrites it before any use) and is dropped.
for_insn ==
    /\ pc = "for_insn"
    /\ IF cname \notin DOMAIN COMMAND_IMPLEMENTATIONS
       THEN /\ pc' = "crashed"
            /\ UNCHANGED <<insnIdx, insn, caller, calls, respdata, tagv>>
       ELSE IF insnIdx < Len(COMMAND_IMPLEMENTATIONS[cname])
       THEN /\ insnIdx' = insnIdx + 1
            /\ insn' = COMMAND_IMPLEMENTATIONS[cname][insnIdx + 1]
            /\ caller' = "send_command_read_response"
            /\ calls' = calls + 1
            /\ respdata' = <<>>
            /\ numtags' = 0
            /\ i' = 0
            /\ r' = <<>>
            /\ tname' = <<>>
            /\ pc' = "ser_write"
       ELSE /\ pc' = "ser_close"
            /\ UNCHANGED <<insnIdx, insn, caller, calls, respdata, tagv>>
    /\ UNCHANGED <<histv, incommand, serv, response, handled, log, ghostv>>

(* ---- write_ser_get_response ---- *)

\* line 129: ser.write(insn); the device answers with some reply
ser_write ==
    /\ pc = "ser_write"
    /\ drained' = FALSE
    /\ lateLeft' = Len(inbuf)
    /\ written' = Append(written, insn)
    /\ \E reply \in DeviceReplies(insn, caller) : wire' = wire \o reply
    /\ polled' = FALSE
    /\ pc' = "sleep1"
    /\ UNCHANGED <<attempts, returns, incommand, ser, inbuf, opens, closes, flushes, loopv, response,
                   respdata, handled, tagv, log, staleCnt, staleRead>>

\* variant: every exchange discards the pending input before it collects
sleep1_flush ==
    /\ pc = "sleep1"
    /\ response' = <<>>
    /\ inbuf' = <<>>
    /\ flushes' = flushes + 1
    /\ pc' = "inWaiting"
    /\ UNCHANGED <<histv, incommand, ser, wire, written, opens, closes, loopv, respdata,
                   handled, tagv, log, ghostv>>

\* lines 130-131: the first settle wait, then response = ""
sleep1 ==
    /\ pc = "sleep1"
    /\ response' = <<>>
    /\ pc' = "inWaiting"
    /\ UNCHANGED <<histv, incommand, serv, loopv, respdata, handled, tagv, log, ghostv>>

\* variant: the loop condition is inWaiting() >= 0, so the loop always reads
inWaiting_block ==
    /\ pc = "inWaiting"
    /\ polled' = TRUE
    /\ drained' = drained
    /\ pc' = "ser_read"
    /\ UNCHANGED <<attempts, returns, lateLeft, incommand, serv, loopv, response, respdata,
                   handled, tagv, log, staleCnt, staleRead>>

\* variant: a frame that got no answer at the first poll is written again
inWaiting_retry ==
    /\ pc = "inWaiting"
    /\ IF Len(inbuf) > 0
       THEN /\ polled' = TRUE
            /\ drained' = drained
            /\ pc' = "ser_read"
       ELSE /\ Len(wire) <= MaxBacklog
            /\ polled' = polled
            /\ drained' = TRUE
            /\ pc' = IF polled THEN "sleep2" ELSE "ser_write"
    /\ UNCHANGED <<attempts, returns, lateLeft, incommand, serv, loopv, response, respdata, handled, tagv, log,
                   staleCnt, staleRead>>

\* line 132: while ser.inWaiting() > 0.  The device is at most MaxBacklog bytes
\* late: the poll finds the buffer empty only when no more than MaxBacklog
\* bytes are still on their way.
inWaiting ==
    /\ pc = "inWaiting"
    /\ IF Len(inbuf) > 0
       THEN /\ polled' = TRUE
            /\ drained' = drained
            /\ pc' = "ser_read"
       ELSE /\ Len(wire) <= MaxBacklog
            /\ polled' = polled
            /\ drained' = TRUE
            /\ pc' = "sleep2"
    /\ UNCHANGED <<attempts, returns, lateLeft, incommand, serv, loopv, response, respdata, handled, tagv, log,
                   staleCnt, staleRead>>

\* line 133: response += ser.read()   (one byte)
ser_read ==
    /\ pc = "ser_read"
    /\ Len(inbuf) > 0
    /\ response' = Append(response, Head(inbuf))
    /\ inbuf' = Tail(inbuf)
    /\ staleRead' = (staleRead \/ staleCnt > 0)
    /\ staleCnt' = IF staleCnt > 0 THEN staleCnt - 1 ELSE 0
    /\ lateLeft' = IF lateLeft > 0 THEN lateLeft - 1 ELSE 0
    /\ pc' = "inWaiting"
    /\ UNCHANGED <<attempts, returns, drained, incommand, ser, wire, written, opens, closes, flushes, loopv,
                   respdata, handled, tagv, log, polled>>

\* lines 134-135: the second settle wait, then return response to the caller
\* (line 146 or line 102), which ends the life of the local accumulator
sleep2 ==
    /\ pc = "sleep2"
    /\ returns' = returns + 1
    /\ IF caller = "send_command_read_response"
       THEN /\ respdata' = response
            /\ r' = r
            /\ pc' = "callback"
       ELSE /\ r' = response
            /\ respdata' = respdata
            /\ pc' = "tag_name"
    /\ response' = <<>>
    /\ UNCHANGED <<attempts, drained, lateLeft, incommand, serv, loopv, handled, numtags, i, tname,
                   log, ghostv>>

(* ---- the response callbacks ---- *)

\* variant: the default callback clears the input buffer when it is done
cb_default_flush ==
    /\ pc = "callback"
    /\ cname \notin COMMAND_CALLBACKS
    /\ handled' = handled + 1
    /\ log' = Append(log, <<"debug", "Response for command">>)
    /\ inbuf' = <<>>
    /\ flushes' = flushes + 1
    /\ pc' = "for_insn"
    /\ UNCHANGED <<histv, incommand, ser, wire, written, opens, closes, loopv, response,
                   respdata, tagv, ghostv>>

\* variant: the default callback runs for every command, the else of line 151
\* is missing
cb_default_always ==
    /\ pc = "callback"
    /\ handled' = handled + 1
    /\ log' = Append(log, <<"debug", "Response for command">>)
    /\ pc' = "for_insn"
    /\ UNCHANGED <<histv, incommand, serv, loopv, response, respdata, tagv, ghostv>>

\* lines 151-152 and 91-94: cb_default dumps the response at debug level
cb_default ==
    /\ pc = "callback"
    /\ cname \notin COMMAND_CALLBACKS
    /\ handled' = handled + 1
    /\ log' = Append(log, <<"debug", "Response for command">>)
    /\ pc' = "for_insn"
    /\ UNCHANGED <<histv, incommand, serv, loopv, response, respdata, tagv, ghostv>>

\* variant: on an unexpected response the callback closes the port itself
cb_read_tags_closing ==
    /\ pc = "callback"
    /\ cname \in COMMAND_CALLBACKS
    /\ handled' = handled + 1
    /\ IF StartsWith(respdata, TAG_COUNT_HEADER)
       THEN /\ numtags' = LastByte(respdata)
            /\ i' = 0
            /\ log' = Append(log, <<"info", "Reading tag names">>)
            /\ pc' = "tag_loop"
            /\ UNCHANGED <<ser, closes>>
       ELSE /\ log' = Append(log, <<"error", "Unexpected response for tag count">>)
            /\ ser' = "closed"
            /\ closes' = closes + 1
            /\ pc' = "for_insn"
            /\ UNCHANGED <<numtags, i>>
    /\ UNCHANGED <<histv, incommand, inbuf, wire, written, opens, flushes, loopv, response,
                   respdata, r, tname, ghostv>>

\* lines 149-150, 98-100 and 105-108: cb_read_tags checks the count header
cb_read_tags ==
    /\ pc = "callback"
    /\ cname \in COMMAND_CALLBACKS
    /\ handled' = handled + 1
    /\ IF StartsWith(respdata, TAG_COUNT_HEADER)
       THEN /\ numtags' = LastByte(respdata)
            /\ i' = 0
            /\ log' = Append(log, <<"info", "Reading tag names">>)
            /\ pc' = "tag_loop"
       ELSE /\ log' = Append(log, <<"error", "Unexpected response for tag count">>)
            /\ pc' = "for_insn"
            /\ UNCHANGED <<numtags, i>>
    /\ UNCHANGED <<histv, incommand, serv, loopv, response, respdata, r, tname, ghostv>>

\* variant: the queries are written one after the other, without collecting
\* the response of each
tag_loop_pipelined ==
    /\ pc = "tag_loop"
    /\ IF i < numtags
       THEN /\ i' = i + 1
            /\ insn' = TAG_READNAME_HEADER \o <<i + 1>>
            /\ caller' = "cb_read_tags"
            /\ calls' = calls + 1
            /\ written' = Append(written, TAG_READNAME_HEADER \o <<i + 1>>)
            /\ pc' = "tag_loop"
       ELSE /\ pc' = "for_insn"
            /\ UNCHANGED <<i, insn, caller, calls, written>>
    /\ UNCHANGED <<histv, incommand, ser, inbuf, wire, opens, closes, flushes, insnIdx,
                   response, respdata, handled, numtags, r, tname, log, ghostv>>

\* variant: the loop counts from 0, for i in xrange(0, numtags)
tag_loop_from0 ==
    /\ pc = "tag_loop"
    /\ IF i < numtags
       THEN /\ i' = i + 1
            /\ insn' = TAG_READNAME_HEADER \o <<i>>
            /\ caller' = "cb_read_tags"
            /\ calls' = calls + 1
            /\ r' = <<>>
            /\ tname' = <<>>
            /\ pc' = "ser_write"
       ELSE /\ pc' = "for_insn"
            /\ UNCHANGED <<i, insn, caller, calls, r, tname>>
    /\ UNCHANGED <<histv, incommand, serv, insnIdx, response, respdata, handled, numtags,
                   log, ghostv>>

\* lines 101-102: for i in xrange(1, numtags+1): query the name of tag i.
\* r and tname of the previous iteration are dead from here on and are dropped.
\* variant: the index is sent as a two-byte word and the length byte is 9
tag_loop_wide ==
    /\ pc = "tag_loop"
    /\ IF i < numtags
       THEN /\ i' = i + 1
            /\ insn' = <<86, 255, 255, 0, 9, 10, 0, 0, i + 1>>
            /\ caller' = "cb_read_tags"
            /\ calls' = calls + 1
            /\ r' = <<>>
            /\ tname' = <<>>
            /\ pc' = "ser_write"
       ELSE /\ pc' = "for_insn"
            /\ UNCHANGED <<i, insn, caller, calls, r, tname>>
    /\ UNCHANGED <<histv, incommand, serv, insnIdx, response, respdata, handled, numtags,
                   log, ghostv>>

\* lines 101-102: for i in xrange(1, numtags+1), the query of tag i
tag_loop ==
    /\ pc = "tag_loop"
    /\ IF i < numtags
       THEN /\ i' = i + 1
            /\ insn' = TAG_READNAME_HEADER \o <<i + 1>>
            /\ caller' = "cb_read_tags"
            /\ calls' = calls + 1
            /\ r' = <<>>
            /\ tname' = <<>>
            /\ pc' = "ser_write"
       ELSE /\ pc' = "for_insn"
            /\ UNCHANGED <<i, insn, caller, calls, r, tname>>
    /\ UNCHANGED <<histv, incommand, serv, insnIdx, response, respdata, handled, numtags,
                   log, ghostv>>

\* lines 103-104: extract and report the name
tag_name ==
    /\ pc = "tag_name"
    /\ tname' = TagName(r)
    /\ log' = Append(log, <<"info", "Read tag name">>)
    /\ pc' = "tag_loop"
    /\ UNCHANGED <<histv, incommand, serv, loopv, response, respdata, handled, numtags,
                   i, r, ghostv>>

(* ---- the device ---- *)

\* one byte on its way reaches the input buffer of the open port
DeviceSend ==
    /\ ser = "open"
    /\ Len(wire) > 0
    /\ inbuf' = Append(inbuf, Head(wire))
    /\ wire' = Tail(wire)
    /\ UNCHANGED <<histv, pc, incommand, ser, written, opens, closes, flushes, loopv,
                   response, respdata, handled, tagv, log, ghostv>>

Next ==
    \/ main
    \/ process_command
    \/ connect_serial
    \/ send_command_read_response
    \/ flushInput
    \/ for_insn
    \/ ser_write
    \/ sleep1
    \/ inWaiting
    \/ ser_read
    \/ sleep2
    \/ cb_default
    \/ cb_read_tags
    \/ tag_loop
    \/ tag_name
    \/ ser_close
    \/ main_done
    \/ DeviceSend

Spec == Init /\ [][Next]_vars

\* the steps of the program, which runs whenever it can
ProgramStep ==
    \/ main
    \/ process_command
    \/ connect_serial
    \/ send_command_read_response
    \/ flushInput
    \/ for_insn
    \/ ser_write
    \/ sleep1
    \/ inWaiting
    \/ ser_read
    \/ sleep2
    \/ cb_default
    \/ cb_read_tags
    \/ tag_loop
    \/ tag_name
    \/ ser_close
    \/ main_done

\* the program keeps running and what the device has sent (finitely many
\* bytes per frame) arrives in the end: as long as a step of the program or an
\* arrival is possible, one of them happens
FairSpec == Spec /\ WF_vars(ProgramStep \/ DeviceSend)

(* ---- send_command_read_response on its own ---- *)

\* the dispatcher called on a freshly opened transport with any identifier,
\* without the check process_command makes first
InitDispatcher ==
    /\ pc = "send_command_read_response"
    /\ incommand \in {<<c>> : c \in CommandIds}
    /\ ser = "open"
    /\ inbuf = <<>>
    /\ wire \in StaleInputs
    /\ written = <<>>
    /\ insnIdx = 0
    /\ insn = <<>>
    /\ caller = "none"
    /\ response = <<>>
    /\ respdata = <<>>
    /\ handled = 0
    /\ numtags = 0
    /\ i = 0
    /\ r = <<>>
    /\ tname = <<>>
    /\ log = <<>>
    /\ opens = 1
    /\ closes = 0
    /\ flushes = 0
    /\ calls = 0
    /\ staleCnt = 0
    /\ staleRead = FALSE
    /\ polled = FALSE
    /\ attempts = 1
    /\ returns = 0
    /\ drained = FALSE
    /\ lateLeft = 0

\* the steps of the dispatcher, the collector and the callbacks; the run ends
\* where the dispatcher returns (pc = "ser_close") or raises (pc = "crashed")
NextDispatcher ==
    \/ send_command_read_response
    \/ flushInput
    \/ for_insn
    \/ ser_write
    \/ sleep1
    \/ inWaiting
    \/ ser_read
    \/ sleep2
    \/ cb_default
    \/ cb_read_tags
    \/ tag_loop
    \/ tag_name
    \/ DeviceSend

SpecDispatcher == InitDispatcher /\ [][NextDispatcher]_vars

(* ---- the enumeration of cb_read_tags on its own ---- *)

\* the number of bit-query frames of lines 43-59
MaxQuery == Len(READ_INPUT_BITS) + Len(READ_OUTPUT_BITS)

\* lines 98-100: cb_read_tags has accepted the count response of a device
\* that reports n tags, and is about to start the loop of line 101
InitEnumeration ==
    /\ pc = "tag_loop"
    /\ incommand = <<"read_tags">>
    /\ ser = "open"
    /\ inbuf = <<>>
    /\ wire = <<>>
    /\ written = << <<86, 255, 255, 0, 6, 172>> >>
    /\ insnIdx = 1
    /\ insn = <<86, 255, 255, 0, 6, 172>>
    /\ caller = "send_command_read_response"
    /\ response = <<>>
    /\ \E n \in 0..MaxQuery :
          /\ respdata = TAG_COUNT_HEADER \o <<n>>
          /\ numtags = n
    /\ handled = 1
    /\ i = 0
    /\ r = <<>>
    /\ tname = <<>>
    /\ log = << <<"info", "Sending command">>, <<"info", "Reading tag names">> >>
    /\ opens = 1
    /\ closes = 0
    /\ flushes = 0
    /\ calls = 1
    /\ staleCnt = 0
    /\ staleRead = FALSE
    /\ polled = TRUE
    /\ attempts = 1
    /\ returns = 1
    /\ drained = TRUE
    /\ lateLeft = 0

\* the loop of lines 101-104 with the collector it calls; the run ends where
\* the dispatcher's loop is over (pc = "ser_close")
NextEnumeration ==
    \/ tag_loop
    \/ ser_write
    \/ sleep1
    \/ inWaiting
    \/ ser_read
    \/ sleep2
    \/ tag_name
    \/ for_insn
    \/ DeviceSend

SpecEnumeration == InitEnumeration /\ [][NextEnumeration]_vars

TypeOK ==
    /\ ser \in {"none", "open", "closed"}
    /\ caller \in {"none", "send_command_read_response", "cb_read_tags"}
    /\ numtags \in 0..255
    /\ i \in 0..numtags
    /\ \A k \in 1..Len(inbuf) : inbuf[k] \in 0..255

(* ---- vocabulary of the properties ---- *)

IsPrefix(a, b) == Len(a) <= Len(b) /\ a = SubSeq(b, 1, Len(a))

\* s begins with 56 FF FF 00 0A AC 06
HasCountHeader(s) == Len(s) >= 7 /\ SubSeq(s, 1, 7) = <<86, 255, 255, 0, 10, 172, 6>>

ErrorLogged(msg) == \E k \in 1..Len(log) : log[k] = <<"error", msg>>

NoErrorLogged == \A k \in 1..Len(log) : log[k][1] # "error"

\* positions after the callback of the last frame has returned
AfterHandler == {"for_insn", "ser_close", "main_done", "done"}

\* the tag count request followed by the tag-name queries 1..n
TagWrites(n) ==
    << <<86, 255, 255, 0, 6, 172>> >> \o [k \in 1..n |-> <<86, 255, 255, 0, 8, 10, 0, k>>]

Vocabulary ==
    {"play", "pause", "reset", "step_into", "step_out", "step_over",
     "enter_debug", "exit_debug",
     "set_output_1_on", "set_output_2_on", "set_output_3_on",
     "set_output_4_on", "set_output_5_on", "set_output_6_on",
     "set_output_1_off", "set_output_2_off", "set_output_3_off",
     "set_output_4_off", "set_output_5_off", "set_output_6_off",
     "read_input_bits", "read_output_bits", "read_tags"}

(* ---- C1 ---- *)
\* C1: when cb_read_tags receives the count header followed by one count byte
\* N, the frames written are the count request and then the tag-name queries
\* header+1, header+2, ... in that order; once the handler has returned exactly
\* N queries have been written, and no error has been logged (also for N = 0).
C1_TagQueriesInOrder ==
    (cname = "read_tags" /\ Len(respdata) = 8 /\ HasCountHeader(respdata)) =>
        /\ IsPrefix(written, TagWrites(respdata[8]))
        /\ (handled = 1 /\ pc \in AfterHandler) => written = TagWrites(respdata[8])
        /\ NoErrorLogged

C1_Witness ==
    /\ cname = "read_tags"
    /\ pc = "done"
    /\ respdata = <<86, 255, 255, 0, 10, 172, 6, 2>>
    /\ written = TagWrites(2)

(* ---- C2 ---- *)
\* C2: when the phase-1 response does not start with the count header, the
\* handler logs the mismatch at error severity, no frame follows the count
\* request, and the handler returns to the dispatcher, which goes on to close
\* the transport and finish.
C2_Phase1Rejection ==
    (cname = "read_tags" /\ handled = 1 /\ ~HasCountHeader(respdata)) =>
        /\ written = << <<86, 255, 255, 0, 6, 172>> >>
        /\ ErrorLogged("Unexpected response for tag count")
        /\ pc \in AfterHandler
        /\ pc \in {"main_done", "done"} => ser = "closed"

C2_Witness ==
    /\ cname = "read_tags"
    /\ pc = "done"
    /\ respdata = <<86, 255, 255>>
    /\ ser = "closed"
    /\ ErrorLogged("Unexpected response for tag count")

(* ---- C3 ---- *)
\* C3: the bytes pending when send_command_read_response starts are gone
\* before the first frame is written, the flush comes before any write, and
\* none of those bytes is ever read into a response.
C3_StaleInputDiscarded ==
    /\ ~staleRead
    /\ (pc \in {"for_insn", "ser_write"} \/ Len(written) >= 1) => staleCnt = 0
    /\ pc = "flushInput" => written = <<>>

C3_Witness ==
    /\ flushes = 1
    /\ pc = "callback"
    /\ calls = 1
    /\ Len(respdata) > 0
    /\ ~staleRead

(* ---- C4 ---- *)
\* C4: in an exchange where every poll so far has reported zero bytes the
\* frame has been written exactly once, and when the collector returns after
\* such an exchange the value it returns is the empty sequence, with no error
\* logged and no exception.
C4_SilentDeviceEmptyResponse ==
    (pc \in {"sleep1", "inWaiting", "sleep2", "callback", "tag_name"} /\ ~polled) =>
        /\ Len(written) = calls
        /\ response = <<>>
        /\ pc = "callback" => respdata = <<>>
        /\ pc = "tag_name" => r = <<>>
        /\ NoErrorLogged

C4_Witness ==
    /\ pc = "callback"
    /\ ~polled
    /\ calls = 2
    /\ Len(written) = 2
    /\ respdata = <<>>

(* ---- C5 ---- *)
\* C5: at the lookup each of the 23 identifiers of the vocabulary has a
\* non-empty frame sequence in the catalog, and passes the lookup without an
\* error line; every other identifier fails the lookup, which logs the
\* unknown-command error.
C5_CatalogLookup ==
    /\ pc = "process_command" =>
          /\ Cardinality(Vocabulary) = 23
          /\ LET catalog == COMMAND_IMPLEMENTATIONS
             IN \A c \in Vocabulary :
                   /\ c \in DOMAIN catalog
                   /\ Len(catalog[c]) >= 1
    /\ pc \notin {"main", "process_command"} =>
          (cname \notin Vocabulary <=> ErrorLogged("Unknown command - please check usage"))

C5_Witness ==
    /\ cname = "set_output_7_on"
    /\ pc = "done"
    /\ ErrorLogged("Unknown command - please check usage")

(* ---- C6 ---- *)
\* C6: for an identifier outside the catalog the transport is never opened,
\* nothing is flushed or written, the error is logged, and the run goes from
\* process_command straight to the end of main, which logs "Done".
C6_UnknownCommandAborts ==
    cname \notin Vocabulary =>
        /\ ser = "none" /\ opens = 0
        /\ flushes = 0
        /\ written = <<>> /\ calls = 0
        /\ pc \in {"main", "process_command", "main_done", "done"}
        /\ pc = "main_done" => log[Len(log)] = <<"error", "Unknown command - please check usage">>
        /\ pc = "done" => log = << <<"debug", "Starting up">>,
                                   <<"error", "Unknown command - please check usage">>,
                                   <<"info", "Done">> >>

C6_Witness ==
    /\ cname = "stop"
    /\ pc = "done"
    /\ ser = "none"
    /\ log[Len(log)] = <<"info", "Done">>

(* ---- C7 ---- *)

\* positions of the space bytes of s at or after offset 9 (position 10)
SpacesFrom9(s) == {k \in 10..Len(s) : s[k] = 32}

\* the bytes of s from offset 9 up to the first space at or after offset 9
NameUpToSpace(s) ==
    IF SpacesFrom9(s) = {}
    THEN [k \in 1..(IF Len(s) > 9 THEN Len(s) - 9 ELSE 0) |-> s[k + 9]]
    ELSE LET sp == CHOOSE k \in SpacesFrom9(s) : \A m \in SpacesFrom9(s) : k <= m
         IN [k \in 1..(sp - 10) |-> s[k + 9]]

\* C7: once a tag name has been extracted from the tag-name response r, it is
\* the bytes of r from offset 9 up to the first space at or after offset 9, all
\* bytes from offset 9 when there is no such space, and empty when r has 9
\* bytes or less; the extraction never fails.
C7_TagNameExtraction ==
    /\ pc # "tag_name" => tname = NameUpToSpace(r)
    /\ pc = "crashed" => opens = 0

C7_Witness ==
    /\ pc = "tag_loop"
    /\ Len(r) = 19
    /\ SubSeq(r, 10, 19) = <<77, 79, 84, 79, 82, 49, 32, 88, 89, 90>>
    /\ tname = <<77, 79, 84, 79, 82, 49>>

(* ---- C8 ---- *)
OnName ==
    <<"set_output_1_on", "set_output_2_on", "set_output_3_on",
      "set_output_4_on", "set_output_5_on", "set_output_6_on">>

OffName ==
    <<"set_output_1_off", "set_output_2_off", "set_output_3_off",
      "set_output_4_off", "set_output_5_off", "set_output_6_off">>

Bitmask == <<1, 2, 4, 8, 16, 32>>

\* C8: for k in 1..6 the one frame of set_output_k_on and the one frame of
\* set_output_k_off are 21 bytes long and equal except in the last byte, 1
\* for on and 0 for off; byte 18 of both is 2^(k-1); frames of different k
\* differ in byte 18 only (each agrees with the frame of output 1 elsewhere);
\* and that frame is what the command writes.  Stated of the pair the running
\* command belongs to; the command ranges over all twelve.
C8_SetOutputFrames ==
    \A k \in 1..6 :
        cname \in {OnName[k], OffName[k]} =>
            LET catalog == COMMAND_IMPLEMENTATIONS
                on1 == catalog[OnName[1]][1]
                off1 == catalog[OffName[1]][1]
                on == catalog[OnName[k]]
                off == catalog[OffName[k]]
            IN /\ Len(on) = 1 /\ Len(off) = 1
               /\ Len(on[1]) = 21 /\ Len(off[1]) = 21
               /\ SubSeq(on[1], 1, 20) = SubSeq(off[1], 1, 20)
               /\ on[1][21] = 1 /\ off[1][21] = 0
               /\ on[1][18] = Bitmask[k] /\ off[1][18] = Bitmask[k]
               /\ [on[1] EXCEPT ![18] = 0] = [on1 EXCEPT ![18] = 0]
               /\ [off[1] EXCEPT ![18] = 0] = [off1 EXCEPT ![18] = 0]
               /\ (cname = OnName[k] /\ Len(written) >= 1) => written = on
               /\ (cname = OffName[k] /\ Len(written) >= 1) => written = off

C8_Witness ==
    /\ cname = "set_output_4_on"
    /\ pc = "done"
    /\ Len(written) = 1
    /\ written[1][18] = 8
    /\ written[1][21] = 1

(* ---- C9 ---- *)
FinalBytes(frames) == {frames[k][Len(frames[k])] : k \in 1..Len(frames)}

SixQueries(frames) ==
    /\ Len(frames) = 6
    /\ \A k \in 1..6 : Len(frames[k]) = 8
    /\ \A k \in 1..5 : frames[k][8] < frames[k + 1][8]

\* C9: read_input_bits and read_output_bits each have exactly 6 frames of 8
\* bytes whose last bytes increase strictly in sequence order, the last bytes
\* of the two groups are disjoint, and these frames are what the two commands
\* write, in order.  Stated in the runs of these two commands.
C9_BitQueryFrames ==
    cname \in {"read_input_bits", "read_output_bits"} =>
        LET catalog == COMMAND_IMPLEMENTATIONS
            inp == catalog["read_input_bits"]
            out == catalog["read_output_bits"]
        IN /\ SixQueries(inp)
           /\ SixQueries(out)
           /\ FinalBytes(inp) \cap FinalBytes(out) = {}
           /\ cname = "read_input_bits" =>
                 IsPrefix(written, inp) /\ (pc = "done" => Len(written) = 6)
           /\ cname = "read_output_bits" =>
                 IsPrefix(written, out) /\ (pc = "done" => Len(written) = 6)

C9_Witness ==
    /\ cname = "read_output_bits"
    /\ pc = "done"
    /\ Len(written) = 6
    /\ written[1][8] = 7
    /\ written[6][8] = 12

(* ---- C10 ---- *)
\* positions between the return of connect_serial and ser.close()
SerInUse ==
    {"send_command_read_response", "flushInput", "for_insn", "ser_write", "sleep1",
     "inWaiting", "ser_read", "sleep2", "callback", "tag_loop", "tag_name", "ser_close"}

\* C10: for a known command the transport is opened at most once and before
\* any flush, write or read; while it is in use it is open and not yet closed;
\* it is closed once, only after every frame of the command has been exchanged
\* and handled (all tag-name round trips included), and after the close the
\* run is at the end of main, where the transport is not touched again.
C10_TransportLifecycle ==
    cname \in Vocabulary =>
        /\ opens <= 1 /\ closes <= 1
        /\ pc \in SerInUse => ser = "open" /\ opens = 1 /\ closes = 0
        /\ ser = "none" =>
              /\ pc \in {"main", "process_command", "connect_serial", "crashed"}
              /\ written = <<>> /\ flushes = 0 /\ calls = 0 /\ handled = 0
        /\ ser = "closed" =>
              /\ pc \in {"main_done", "done"}
              /\ opens = 1 /\ closes = 1
              /\ insnIdx = Len(COMMAND_IMPLEMENTATIONS[cname])
              /\ handled = Len(COMMAND_IMPLEMENTATIONS[cname])
              /\ Len(written) = calls
              /\ (cname = "read_tags" /\ HasCountHeader(respdata)) =>
                    i = numtags /\ calls = 1 + numtags
        /\ pc \in {"main_done", "done"} => ser = "closed"

C10_Witness ==
    /\ cname = "read_tags"
    /\ pc = "done"
    /\ ser = "closed"
    /\ opens = 1 /\ closes = 1
    /\ numtags = 2 /\ i = 2
    /\ Len(written) = 3

(* ---- C11 ---- *)
DoneLogged == \E k \in 1..Len(log) : log[k] = <<"info", "Done">>

\* C11: the open is attempted at most once; when it fails for a known command
\* the run ends there with the exception: nothing has been flushed or written,
\* no callback has run, the handle does not exist, and "Done" is never logged.
C11_ConnectionErrorFatal ==
    /\ attempts <= 1
    /\ pc = "crashed" => attempts = 1 /\ opens = 0
    /\ (cname \in Vocabulary /\ attempts = 1 /\ opens = 0) =>
          /\ pc = "crashed"
          /\ ser = "none"
          /\ written = <<>> /\ calls = 0 /\ flushes = 0
          /\ handled = 0
          /\ ~DoneLogged

C11_Witness ==
    /\ cname = "read_tags"
    /\ pc = "crashed"
    /\ attempts = 1
    /\ opens = 0
    /\ written = <<>>

(* ---- C12 ---- *)
\* positions between ser.write and the return of write_ser_get_response
InExchange == pc \in {"sleep1", "inWaiting", "ser_read", "sleep2"}

\* C12: at most one exchange is in progress: every frame written so far
\* belongs to an exchange that has returned, except the one in progress; a
\* frame is written only when all earlier exchanges have returned; an exchange
\* reaches its second settle wait and returns only after a poll reported zero;
\* a successful read_tags with count N ends with N+1 round trips on the one
\* handle.
C12_NoPipelining ==
    /\ Len(written) = returns + (IF InExchange THEN 1 ELSE 0)
    /\ pc = "ser_write" => calls = returns + 1
    /\ pc # "ser_write" => calls = Len(written)
    /\ pc \in {"sleep1", "inWaiting", "ser_read"} => ~drained
    /\ (returns >= 1 /\ pc \notin {"sleep1", "inWaiting", "ser_read"}) => drained
    /\ pc = "sleep2" => drained
    /\ opens <= 1
    /\ (cname = "read_tags" /\ handled = 1 /\ pc \in AfterHandler
            /\ HasCountHeader(respdata)) =>
          returns = numtags + 1 /\ Len(written) = numtags + 1

C12_Witness ==
    /\ cname = "read_tags"
    /\ pc = "done"
    /\ numtags = 2
    /\ returns = 3
    /\ Len(written) = 3
    /\ opens = 1

(* ---- C13 ---- *)
\* C13 as stated: given an identifier that is not in the catalog, the
\* dispatcher writes no frame, does not raise, and has reported the unknown
\* command when it returns.
C13_DispatcherReportsUnknown ==
    cname \notin Vocabulary =>
        /\ written = <<>>
        /\ pc # "crashed"
        /\ pc = "ser_close" => ErrorLogged("Unknown command - please check usage")

\* C13 as amended: given an identifier that is not in the catalog, the
\* dispatcher discards stale input, logs "Sending command" and then fails at
\* the catalog lookup with an exception it does not handle: no frame is
\* written, nothing is logged at error severity, the dispatcher never returns
\* normally and the transport is left open.
C13_DispatcherLookupRaises ==
    cname \notin Vocabulary =>
        /\ written = <<>> /\ calls = 0
        /\ pc \in {"send_command_read_response", "flushInput", "for_insn", "crashed"}
        /\ NoErrorLogged
        /\ pc \in {"for_insn", "crashed"} =>
              /\ staleCnt = 0
              /\ log = << <<"info", "Sending command">> >>
        /\ ser = "open" /\ closes = 0

C13_Witness ==
    /\ cname = "stop"
    /\ pc = "crashed"
    /\ flushes = 1
    /\ written = <<>>
    /\ ser = "open"

(* ---- C14 ---- *)
CountLog(e) == Cardinality({k \in 1..Len(log) : log[k] = e})

\* the dispatcher is busy with the frame insnIdx: its exchange or its callback
DispatcherBusy ==
    \/ pc = "callback"
    \/ /\ pc \in {"ser_write", "sleep1", "inWaiting", "ser_read", "sleep2"}
       /\ caller = "send_command_read_response"

C14_Positions ==
    cname \in Vocabulary =>
        LET frames == COMMAND_IMPLEMENTATIONS[cname] IN
        /\ handled <= insnIdx /\ insnIdx <= Len(frames)
        /\ DispatcherBusy => insnIdx = handled + 1
        /\ (pc \in {"for_insn", "ser_close", "main_done", "done"}) => insnIdx = handled
        /\ (pc = "ser_write" /\ caller = "send_command_read_response") =>
              insn = frames[insnIdx]
        /\ pc = "callback" => returns = Len(written) /\ ~InExchange
        /\ pc \in {"ser_close", "main_done", "done"} => handled = Len(frames)
        /\ cname # "read_tags" =>
              /\ CountLog(<<"debug", "Response for command">>) = handled
              /\ CountLog(<<"info", "Reading tag names">>) = 0
              /\ CountLog(<<"error", "Unexpected response for tag count">>) = 0
        /\ cname = "read_tags" =>
              /\ CountLog(<<"debug", "Response for command">>) = 0
              /\ CountLog(<<"info", "Reading tag names">>)
                    + CountLog(<<"error", "Unexpected response for tag count">>) = handled

C14_Steps ==
    /\ (pc = "sleep2" /\ caller = "send_command_read_response" /\ pc' # pc) =>
          pc' = "callback" /\ respdata' = response /\ handled' = handled
    /\ (pc = "callback" /\ pc' # pc) =>
          handled' = handled + 1 /\ respdata' = respdata /\ written' = written
    /\ handled' # handled => pc = "callback"
    /\ insnIdx' # insnIdx => pc = "for_insn" /\ insnIdx' = insnIdx + 1 /\ handled = insnIdx

\* C14: for a catalog command the dispatcher takes the frames in catalog
\* order; when the exchange of a frame has returned, its response is handed to
\* one callback, once, before the next frame is taken; the callback is
\* cb_read_tags for read_tags and cb_default for every other command; at the
\* end there have been as many callback invocations as the command has frames.
C14_PerFrameDispatch == [](C14_Positions) /\ [][C14_Steps]_vars

C14_Witness ==
    /\ cname = "read_input_bits"
    /\ pc = "done"
    /\ handled = 6
    /\ returns = 6
    /\ CountLog(<<"debug", "Response for command">>) = 6

(* ---- C15 ---- *)
C15_Writes ==
    (cname \in Vocabulary /\ cname # "read_tags") =>
        LET frames == COMMAND_IMPLEMENTATIONS[cname] IN
        /\ IsPrefix(written, frames)
        /\ Len(written) = (IF pc = "ser_write" THEN insnIdx - 1 ELSE insnIdx)
        /\ pc \in {"ser_close", "main_done", "done"} => written = frames

C15_DefaultStep ==
    (pc = "callback" /\ cname # "read_tags" /\ pc' # pc) =>
        /\ pc' = "for_insn"
        /\ UNCHANGED <<ser, inbuf, wire, written, flushes, opens, closes>>

\* C15: for a catalog command other than read_tags the byte strings written
\* are the frames of the catalog entry, in order, one per loop iteration, and
\* all of them and nothing else once the loop has ended; the step of the
\* default callback leaves the transport as it is: nothing written, read,
\* flushed, opened or closed, whatever the response.
C15_DefaultHandlerWritesNothing == [](C15_Writes) /\ [][C15_DefaultStep]_vars

C15_Witness ==
    /\ cname = "play"
    /\ pc = "done"
    /\ handled = 1
    /\ respdata = <<86, 255, 255, 0, 10, 172, 7, 2>>
    /\ written = << <<86, 255, 255, 0, 7, 241, 1>> >>

(* ---- C16 ---- *)
C16_LoopSteps ==
    /\ (pc = "inWaiting" /\ pc' = "sleep2") => Len(inbuf) = 0
    /\ (pc \in {"inWaiting", "ser_read"} /\ pc' # pc) =>
          pc' \in {"inWaiting", "ser_read", "sleep2"}
    /\ (pc = "tag_loop" /\ pc' = "ser_write") => i < numtags /\ numtags <= 255
    /\ (pc = "for_insn" /\ pc' = "ser_write") =>
          insnIdx < Len(COMMAND_IMPLEMENTATIONS[cname])

C16_Ended ==
    \/ pc = "crashed" /\ opens = 0
    \/ pc = "done" /\ (opens > 0 => ser = "closed" /\ closes = 1)

\* C16: with a device that sends finitely many bytes per frame, which all
\* arrive, every run ends: either the transport could not be opened, or
\* main is done and a transport that was opened is closed; the drain loop is
\* left only to the second settle wait and only at a poll that reports zero
\* bytes, and the other two loops are counted (frames of the catalog entry,
\* tags 1..numtags).
C16_Termination ==
    /\ <>C16_Ended
    /\ [][C16_LoopSteps]_vars

C16_Witness ==
    /\ cname = "read_tags"
    /\ pc = "done"
    /\ ser = "closed"
    /\ numtags = 6
    /\ i = 6
    /\ returns = 7

(* ---- C17 ---- *)
\* C17: once cb_read_tags has accepted a phase-1 response, the tag count is
\* the last byte of that response whatever its length (6 when the response
\* is the bare 7-byte header, the final byte when two or more bytes follow
\* the header), the frames written so far are the count request and the
\* queries 1, 2, ... in order, and when the handler is over they are exactly
\* the count request and the queries 1..N.
C17_CountIsLastByte ==
    (cname = "read_tags" /\ handled >= 1 /\ HasCountHeader(respdata)) =>
        /\ numtags = respdata[Len(respdata)]
        /\ (Len(respdata) = 7 => numtags = 6)
        /\ IsPrefix(written, TagWrites(numtags))
        /\ Len(written) = (IF pc = "ser_write" THEN i ELSE i + 1)
        /\ (pc \in AfterHandler => i = numtags /\ written = TagWrites(numtags))

C17_Witness ==
    /\ cname = "read_tags"
    /\ pc = "done"
    /\ respdata = <<86, 255, 255, 0, 10, 172, 6>>
    /\ numtags = 6
    /\ written = TagWrites(6)

(* ---- C18 ---- *)
C18_Framing ==
    /\ flushes <= 1
    /\ (pc = "flushInput" => written = <<>> /\ flushes = 0)
    /\ (pc \in {"sleep1", "inWaiting", "ser_read"} => lateLeft <= Len(inbuf))
    /\ (pc = "sleep2" => drained /\ lateLeft = 0)

C18_Steps ==
    /\ (response' # response) =>
          \/ pc = "sleep1" /\ response' = <<>>
          \/ /\ pc = "ser_read"
             /\ ~drained
             /\ Len(inbuf) > 0
             /\ response' = Append(response, Head(inbuf))
             /\ inbuf' = Tail(inbuf)
          \/ pc = "sleep2" /\ pc' # pc /\ response' = <<>>
    /\ (pc = "inWaiting" /\ pc' = "sleep2") =>
          inbuf = <<>> /\ response' = response
    /\ (pc = "sleep2" /\ pc' # pc) =>
          /\ inbuf' = inbuf
          /\ wire' = wire
          /\ IF caller = "send_command_read_response"
             THEN respdata' = response
             ELSE r' = response
    /\ (inbuf' # inbuf) =>
          \/ Len(wire) > 0 /\ inbuf' = Append(inbuf, Head(wire)) /\ pc' = pc
          \/ pc = "ser_read" /\ inbuf' = Tail(inbuf)
          \/ pc = "flushInput" /\ written = <<>> /\ inbuf' = <<>>

\* C18: the response that write_ser_get_response returns is what ser.read
\* delivered, byte by byte from the front of the input buffer, between the
\* write and the first poll that finds the buffer empty; nothing is read
\* after that poll, so what arrives later stays in the buffer; the buffer is
\* emptied otherwise only by the one flush before the first frame, so the
\* bytes pending when the next frame is written are all read, first, into
\* the response of that next exchange.
C18_CollectorFraming ==
    /\ [](C18_Framing)
    /\ [][C18_Steps]_vars

C18_Witness ==
    /\ cname = "read_tags"
    /\ pc = "tag_name"
    /\ respdata = <<86, 255, 255, 0, 10, 172, 6>>
    /\ numtags = 6
    /\ i = 1
    /\ Len(r) >= 1
    /\ r[1] = 2

(* ---- C19 ---- *)
\* C19: every byte string passed to ser.write, and the one about to be
\* passed, begins with the byte 0x56, and so does every frame of the
\* catalog and the header of the tag-name queries.
C19_MarkerByte ==
    /\ \A k \in 1..Len(written) : Len(written[k]) >= 1 /\ written[k][1] = 86
    /\ (pc = "ser_write" => Len(insn) >= 1 /\ insn[1] = 86)
    /\ (pc = "process_command" =>
          /\ TAG_READNAME_HEADER[1] = 86
          /\ \A c \in DOMAIN COMMAND_IMPLEMENTATIONS :
               \A k \in 1..Len(COMMAND_IMPLEMENTATIONS[c]) :
                  COMMAND_IMPLEMENTATIONS[c][k][1] = 86)

C19_Witness ==
    /\ cname = "read_tags"
    /\ pc = "done"
    /\ Len(written) = 3
    /\ written[1] = COMMAND_IMPLEMENTATIONS["read_tags"][1]
    /\ written[3] = TAG_READNAME_HEADER \o <<2>>

(* ---- C20 ---- *)
C20_BitQueries ==
    COMMAND_IMPLEMENTATIONS["read_input_bits"] \o COMMAND_IMPLEMENTATIONS["read_output_bits"]

\* C20: in the enumeration of a device that reports up to 12 tags, the query
\* written for tag k is the k-th frame of read_input_bits for k in 1..6 and
\* the (k-6)-th frame of read_output_bits for k in 7..12: the frames written
\* after the count request are the frames of the two bit-query commands, in
\* their order.
C20_QueriesAreBitQueries ==
    /\ Len(written) >= 1
    /\ Len(written) <= MaxQuery + 1
    /\ Tail(written) = SubSeq(C20_BitQueries, 1, Len(written) - 1)
    /\ (pc = "ser_write" =>
          /\ insn = TAG_READNAME_HEADER \o <<i>>
          /\ (i \in 1..6 => insn = READ_INPUT_BITS[i])
          /\ (i \in 7..12 => insn = READ_OUTPUT_BITS[i - 6]))

C20_Witness ==
    /\ pc = "ser_close"
    /\ numtags = 12
    /\ Len(written) = 13
    /\ written[2] = READ_INPUT_BITS[1]
    /\ written[7] = READ_INPUT_BITS[6]
    /\ written[8] = READ_OUTPUT_BITS[1]
    /\ written[13] = READ_OUTPUT_BITS[6]
====
